---- MODULE Spec2Model ----
(***************************************************************************)
(* Business-day calendar engine of dias_uteis (src/dias_uteis.py).         *)
(*                                                                         *)
(* A date is its proleptic Gregorian ordinal (datetime.date.toordinal()):  *)
(* 1 is 0001-01-01.  Comparison of dates is comparison of ordinals and     *)
(* date + timedelta(days=k) is ordinal + k.  The calendar is the rule      *)
(* list handed to BusinessDays.__init__; every query is one action that    *)
(* records the call (op, args) and what the call returned or raised (ret);  *)
(* the caller then takes the result and the calendar is idle again.        *)
(***************************************************************************)
EXTENDS Integers, Sequences, FiniteSets, TLC

VARIABLES holidays, op, args, ret

vars == <<holidays, op, args, ret>>

(***************************************************************************)
(* Bounds of the model.                                                    *)
(***************************************************************************)
\* Single-date inputs are the dates within NearDays of a 1 January of the
\* years FirstYear..LastYear (every weekday a year can start on), and the
\* probe dates below.
FirstYear == 2023
LastYear == 2030
NearDays == 8
\* Two-date inputs are the dates within PairDays of 1 January 2024, and the
\* probe dates.
PairDays == 6
\* Offsets of delta_bd are -MaxDelta..MaxDelta.
MaxDelta == 5

(***************************************************************************)
(* datetime.date: the arithmetic of the standard library the code calls.   *)
(***************************************************************************)
_is_leap(year) == year % 4 = 0 /\ (year % 100 # 0 \/ year % 400 = 0)

_days_before_year(year) ==
    LET y == year - 1
    IN  y * 365 + (y \div 4) - (y \div 100) + (y \div 400)

_DAYS_IN_MONTH == <<31, 28, 31, 30, 31, 30, 31, 31, 30, 31, 30, 31>>

_DAYS_BEFORE_MONTH == <<0, 31, 59, 90, 120, 151, 181, 212, 243, 273, 304, 334>>

_days_in_month(year, month) ==
    IF month = 2 /\ _is_leap(year) THEN 29 ELSE _DAYS_IN_MONTH[month]

_days_before_month(year, month) ==
    _DAYS_BEFORE_MONTH[month] + (IF month > 2 /\ _is_leap(year) THEN 1 ELSE 0)

\* datetime.date(year, month, day) accepts exactly these triples.
ValidDate(year, month, day) ==
    /\ year \in 1..9999
    /\ month \in 1..12
    /\ day >= 1
    /\ day <= _days_in_month(year, month)

\* datetime.date(year, month, day), as its ordinal.
Date(year, month, day) ==
    _days_before_year(year) + _days_before_month(year, month) + day

\* date.year: the year of an ordinal, by the 400/100/4/1-year cycles.
YearOf(ordinal) ==
    LET n0   == ordinal - 1
        n400 == n0 \div 146097
        r400 == n0 % 146097
        n100 == r400 \div 36524
        r100 == r400 % 36524
        n4   == r100 \div 1461
        r4   == r100 % 1461
        n1   == r4 \div 365
        year == n400 * 400 + 1 + n100 * 100 + n4 * 4 + n1
    IN  IF n1 = 4 \/ n100 = 4 THEN year - 1 ELSE year

\* date + timedelta raises OverflowError outside date.min..date.max.
InDateRange(ordinal) == ordinal >= 1 /\ ordinal <= Date(9999, 12, 31)

\* date.weekday(): Monday is 0, Sunday is 6.
weekday(date) == (date + 6) % 7

(***************************************************************************)
(* Python lists.                                                           *)
(***************************************************************************)
\* x in list
In(x, list) == \E i \in 1..Len(list) : list[i] = x

\* list.index(x): the first position of x counted from 0; -1 stands for the
\* ValueError it raises when x is not in the list.
index(list, x) ==
    IF In(x, list)
    THEN (CHOOSE i \in 1..Len(list) :
              list[i] = x /\ \A j \in 1..(i - 1) : list[j] # x) - 1
    ELSE -1

\* list[k] raises IndexError outside -len..len-1; a negative k counts from
\* the end of the list.
SubscriptInRange(list, k) == k >= -Len(list) /\ k < Len(list)

Subscript(list, k) == IF k >= 0 THEN list[k + 1] ELSE list[Len(list) + k + 1]

\* range(lo, hi + 1) as a list
YearRange(lo, hi) == [i \in 1..(hi - lo + 1) |-> lo + i - 1]

(***************************************************************************)
(* Holiday: a rule is the four attributes Holiday.__init__ stores.  A      *)
(* missing month or day (None) is 0.  func is the function-as-data: its    *)
(* name and the keyword argument bound by functools.partial.               *)
(***************************************************************************)
NoFunc == [name |-> "None", delta |-> 0]

\* Holiday(month=m, day=d), as constructed
Fixed(m, d) == [month |-> m, day |-> d, func |-> NoFunc, type |-> "fixed"]

\* Holiday(func=f), as constructed
Dynamic(f) == [month |-> 0, day |-> 0, func |-> f, type |-> "dynamic"]

\* Easter Sunday by the Meeus/Jones/Butcher algorithm
_calc_pascoa(year) ==
    LET a == year % 19
        b == year \div 100
        c == year % 100
        d == b \div 4
        e == b % 4
        f == (b + 8) \div 25
        g == (b - f + 1) \div 3
        h == (19 * a + b - d - g + 15) % 30
        i == c \div 4
        k == c % 4
        l == (32 + 2 * e + 2 * i - h - k) % 7
        m == (a + 11 * h + 22 * l) \div 451
        month == (h + l - 7 * m + 114) \div 31
        day == ((h + l - 7 * m + 114) % 31) + 1
    IN  Date(year, month, day)

_delta_pascoa(year, delta) == _calc_pascoa(year) + delta

_calc_segunda_feira_carnaval == [name |-> "_delta_pascoa", delta |-> -48]

_calc_terca_feira_carnaval == [name |-> "_delta_pascoa", delta |-> -47]

_calc_sexta_feira_santa == [name |-> "_delta_pascoa", delta |-> -2]

_calc_corpus_christi == [name |-> "_delta_pascoa", delta |-> 60]

\* A caller's own rule function, lambda year: date(year, 1, 1) + timedelta(delta):
\* with a negative delta it answers with a date of the year before, which
\* Holiday does not forbid.
JanFirstPlus(delta) == [name |-> "jan_first_plus", delta |-> delta]

\* self.func(year)
CallFunc(f, year) ==
    IF f.name = "_delta_pascoa"
    THEN _delta_pascoa(year, f.delta)
    ELSE Date(year, 1, 1) + f.delta

\* Holiday.calc_for_year.  Every rule of the calendars below has month and
\* day valid in every year and a function that returns a date.
calc_for_year(holiday, year) ==
    IF holiday.type = "fixed"
    THEN Date(year, holiday.month, holiday.day)
    ELSE CallFunc(holiday.func, year)

FERIADOS_NACIONAIS_BR ==
    << Fixed(1, 1),
       Dynamic(_calc_segunda_feira_carnaval),
       Dynamic(_calc_terca_feira_carnaval),
       Dynamic(_calc_sexta_feira_santa),
       Fixed(4, 21),
       Fixed(5, 1),
       Dynamic(_calc_corpus_christi),
       Fixed(9, 7),
       Fixed(10, 12),
       Fixed(11, 2),
       Fixed(11, 15),
       Fixed(11, 20),
       Fixed(12, 25) >>

(***************************************************************************)
(* BusinessDays.holidays is None or a list of rules.                       *)
(***************************************************************************)
NoneHolidays == [none |-> TRUE, rules |-> <<>>]

ListOf(rules) == [none |-> FALSE, rules |-> rules]

\* The truth value Python gives "holidays": neither None nor empty.
Truthy(h) == ~h.none /\ Len(h.rules) > 0

_business_days_default == ListOf(FERIADOS_NACIONAIS_BR)

\* A calendar that closes over the turn of the year: 28-31 December and
\* 1-5 January.
YearEndClosure ==
    ListOf(<< Fixed(12, 28), Fixed(12, 29), Fixed(12, 30), Fixed(12, 31),
              Fixed(1, 1), Fixed(1, 2), Fixed(1, 3), Fixed(1, 4), Fixed(1, 5) >>)

\* Rules out of calendar order, one of them twice, one that answers with a
\* date of the year before.
Unordered ==
    ListOf(<< Fixed(12, 25), Dynamic(_calc_sexta_feira_santa), Fixed(1, 1),
              Fixed(12, 25), Dynamic(JanFirstPlus(-1)), Fixed(1, 2) >>)

Calendars ==
    { NoneHolidays, ListOf(<<>>), _business_days_default, YearEndClosure, Unordered }

(***************************************************************************)
(* Module-level helpers of src/dias_uteis.py.                              *)
(***************************************************************************)
_get_year_holidays(year, rules) ==
    [i \in 1..Len(rules) |-> calc_for_year(rules[i], year)]

\* The loop with the weekday test off by one: Saturdays pass.
_get_year_business_days_with_saturdays(year, h) ==
    LET year_holidays_ == IF Truthy(h) THEN _get_year_holidays(year, h.rules) ELSE <<>>
        first == Date(year, 1, 1)
        last_date_of_year == Date(year, 12, 31)
        visited == [i \in 1..(last_date_of_year - first + 1) |-> first + i - 1]
    IN  SelectSeq(visited, LAMBDA date : weekday(date) < 6 /\ ~In(date, year_holidays_))

\* The loop without the holiday test.
_get_year_business_days_keeping_holidays(year, h) ==
    LET first == Date(year, 1, 1)
        last_date_of_year == Date(year, 12, 31)
        visited == [i \in 1..(last_date_of_year - first + 1) |-> first + i - 1]
    IN  SelectSeq(visited, LAMBDA date : weekday(date) < 5)

\* The while loop over 1 January .. 31 December, appending the dates that
\* are Monday to Friday and not among the year's holidays.
_get_year_business_days(year, h) ==
    LET year_holidays_ == IF Truthy(h) THEN _get_year_holidays(year, h.rules) ELSE <<>>
        first == Date(year, 1, 1)
        last_date_of_year == Date(year, 12, 31)
        visited == [i \in 1..(last_date_of_year - first + 1) |-> first + i - 1]
    IN  SelectSeq(visited, LAMBDA date : weekday(date) < 5 /\ ~In(date, year_holidays_))

\* Only the two end years, as set([start.year, end.year]) would give.
_get_years_between_two_dates_endpoints(start_date, end_date) ==
    IF YearOf(start_date) = YearOf(end_date)
    THEN <<YearOf(start_date)>>
    ELSE IF YearOf(start_date) < YearOf(end_date)
         THEN <<YearOf(start_date), YearOf(end_date)>>
         ELSE <<YearOf(end_date), YearOf(start_date)>>

_get_years_between_two_dates(start_date, end_date) ==
    IF end_date > start_date
    THEN YearRange(YearOf(start_date), YearOf(end_date))
    ELSE \* sorted(range(start.year, end.year - 1, -1))
         YearRange(YearOf(end_date), YearOf(start_date))

(***************************************************************************)
(* What a call gives back: exc is the exception it raised ("none" when it  *)
(* returned), and the returned bool, int or date, or list is in b, n or l. *)
(***************************************************************************)
NoRet == [exc |-> "none", b |-> FALSE, n |-> 0, l |-> <<>>]

ReturnBool(x) == [NoRet EXCEPT !.b = x]

ReturnInt(x) == [NoRet EXCEPT !.n = x]

ReturnDate(x) == [NoRet EXCEPT !.n = x]

ReturnList(x) == [NoRet EXCEPT !.l = x]

Raise(e) == [NoRet EXCEPT !.exc = e]

(***************************************************************************)
(* BusinessDays: the methods, each as the value it computes from the rule  *)
(* list h and its arguments.                                               *)
(***************************************************************************)
\* The values of _get_year_business_days for the calendars and the years the
\* inputs can touch, computed once: the function is pure, so a call made
\* again gives the value tabulated here.
TableYears == (FirstYear - 2)..(LastYear + 2)

YearTable == [h \in Calendars |-> [year \in TableYears |-> _get_year_business_days(year, h)]]

\* BusinessDays._get_year_business_days: the module-level function applied
\* to self.holidays.
self_get_year_business_days(h, year) ==
    IF h \in Calendars /\ year \in TableYears
    THEN YearTable[h][year]
    ELSE _get_year_business_days(year, h)

RECURSIVE _get_all_bdays_for_years(_, _)
_get_all_bdays_for_years(h, years) ==
    IF years = <<>>
    THEN <<>>
    ELSE self_get_year_business_days(h, Head(years)) \o _get_all_bdays_for_years(h, Tail(years))

is_bd(h, date) == In(date, self_get_year_business_days(h, YearOf(date)))

RECURSIVE _find_bd(_, _, _)
_find_bd(h, start_date, direction) ==
    IF is_bd(h, start_date)
    THEN start_date
    ELSE _find_bd(h, start_date + direction, direction)

\* is_holiday answering for working days of the week only.
is_holiday_weekdays_only(h, date) ==
    LET self_holidays == IF ~Truthy(h) THEN <<>> ELSE h.rules
    IN  weekday(date) < 5 /\ In(date, _get_year_holidays(YearOf(date), self_holidays))

is_holiday(h, date) ==
    LET self_holidays == IF ~Truthy(h) THEN <<>> ELSE h.rules
    IN  In(date, _get_year_holidays(YearOf(date), self_holidays))

\* The list delta_bd materializes: the business days of every year that
\* [date - 4 * delta_days, date + 4 * delta_days] touches, ascending.
delta_bd_all_bdays(h, date, delta_days) ==
    LET start_calendar_date == date + (-delta_days * 4)
        end_calendar_date == date + delta_days * 4
        years == _get_years_between_two_dates(start_calendar_date, end_calendar_date)
    IN  _get_all_bdays_for_years(h, years)

\* delta_bd materializing the year of date alone.
delta_bd_own_year(h, date, delta_days) ==
    LET all_bdays == _get_all_bdays_for_years(h, <<YearOf(date)>>)
        date_position == index(all_bdays, date)
    IN  IF ~is_bd(h, date)
        THEN Raise("ValueError")
        ELSE IF ~SubscriptInRange(all_bdays, date_position + delta_days)
             THEN Raise("IndexError")
             ELSE ReturnDate(Subscript(all_bdays, date_position + delta_days))

\* delta_bd with the window date .. date + 2 * delta_days, on one side of date.
delta_bd_one_sided(h, date, delta_days) ==
    LET end_calendar_date == date + delta_days * 2
        years == _get_years_between_two_dates(date, end_calendar_date)
        all_bdays == _get_all_bdays_for_years(h, years)
        date_position == index(all_bdays, date)
    IN  IF ~is_bd(h, date)
        THEN Raise("ValueError")
        ELSE IF ~SubscriptInRange(all_bdays, date_position + delta_days)
             THEN Raise("IndexError")
             ELSE ReturnDate(Subscript(all_bdays, date_position + delta_days))

\* delta_bd answering date itself for delta_days = 0 before it looks at date.
delta_bd_zero_unchecked(h, date, delta_days) ==
    LET start_calendar_date == date + (-delta_days * 4)
        end_calendar_date == date + delta_days * 4
        years == _get_years_between_two_dates(start_calendar_date, end_calendar_date)
        all_bdays == _get_all_bdays_for_years(h, years)
        date_position == index(all_bdays, date)
    IN  IF delta_days = 0
        THEN ReturnDate(date)
        ELSE IF ~is_bd(h, date)
             THEN Raise("ValueError")
             ELSE IF ~SubscriptInRange(all_bdays, date_position + delta_days)
                  THEN Raise("IndexError")
                  ELSE ReturnDate(Subscript(all_bdays, date_position + delta_days))

delta_bd(h, date, delta_days) ==
    LET start_calendar_date == date + (-delta_days * 4)
        end_calendar_date == date + delta_days * 4
        years == _get_years_between_two_dates(start_calendar_date, end_calendar_date)
        all_bdays == _get_all_bdays_for_years(h, years)
        date_position == index(all_bdays, date)
    IN  IF ~is_bd(h, date)
        THEN Raise("ValueError")
        ELSE IF ~InDateRange(start_calendar_date) \/ ~InDateRange(end_calendar_date)
             THEN Raise("OverflowError")
             ELSE IF date_position < 0
                  THEN Raise("ValueError")
                  ELSE IF ~SubscriptInRange(all_bdays, date_position + delta_days)
                       THEN Raise("IndexError")
                       ELSE ReturnDate(Subscript(all_bdays, date_position + delta_days))

\* date is None when the caller passes no date; clock is datetime.date.today().
\* next_bd looking for its anchor forward instead of backward.
next_bd_anchor_forward(h, date, clock) ==
    LET date1 == IF date = 0 THEN clock ELSE date
        date2 == IF ~is_bd(h, date1) THEN _find_bd(h, date1, 1) ELSE date1
    IN  delta_bd(h, date2, 1)

next_bd(h, date, clock) ==
    LET date1 == IF date = 0 THEN clock ELSE date
        date2 == IF ~is_bd(h, date1) THEN _find_bd(h, date1, -1) ELSE date1
    IN  delta_bd(h, date2, 1)

last_bd(h, date, clock) ==
    LET date1 == IF date = 0 THEN clock ELSE date
        date2 == IF ~is_bd(h, date1) THEN _find_bd(h, date1, 1) ELSE date1
    IN  delta_bd(h, date2, -1)

range_bd(h, start_date, end_date, include_end) ==
    LET years == _get_years_between_two_dates(start_date, end_date)
        all_bdays == _get_all_bdays_for_years(h, years)
    IN  IF include_end
        THEN SelectSeq(all_bdays, LAMBDA bday : bday >= start_date /\ bday <= end_date)
        ELSE SelectSeq(all_bdays, LAMBDA bday : bday >= start_date /\ bday < end_date)

year_bds(h, year) == range_bd(h, Date(year, 1, 1), Date(year, 12, 31), TRUE)

\* year_holidays returning its dates in ascending order.
year_holidays_sorted(h, year) ==
    IF Truthy(h)
    THEN SortSeq(_get_year_holidays(year, h.rules), LAMBDA x, y : x < y)
    ELSE <<>>

year_holidays(h, year) ==
    IF Truthy(h) THEN _get_year_holidays(year, h.rules) ELSE <<>>

\* diff_bd subtracting the position of b from the position of a.
diff_bd_a_minus_b(h, a, b) ==
    IF ~is_bd(h, a)
    THEN Raise("ValueError")
    ELSE IF ~is_bd(h, b)
         THEN Raise("ValueError")
         ELSE LET years == _get_years_between_two_dates(a, b)
                  all_bdays == _get_all_bdays_for_years(h, years)
                  a_pos == index(all_bdays, a)
                  b_pos == index(all_bdays, b)
              IN  IF a_pos < 0 \/ b_pos < 0
                  THEN Raise("ValueError")
                  ELSE ReturnInt(a_pos - b_pos)

\* diff_bd taking the years from a's to b's in the order given, so that no
\* year is materialized when b is in an earlier year than a.
diff_bd_years_as_given(h, a, b) ==
    IF ~is_bd(h, a)
    THEN Raise("ValueError")
    ELSE IF ~is_bd(h, b)
         THEN Raise("ValueError")
         ELSE LET years == YearRange(YearOf(a), YearOf(b))
                  all_bdays == _get_all_bdays_for_years(h, years)
                  a_pos == index(all_bdays, a)
                  b_pos == index(all_bdays, b)
              IN  IF a_pos < 0 \/ b_pos < 0
                  THEN Raise("ValueError")
                  ELSE ReturnInt(b_pos - a_pos)

diff_bd(h, a, b) ==
    IF ~is_bd(h, a)
    THEN Raise("ValueError")
    ELSE IF ~is_bd(h, b)
         THEN Raise("ValueError")
         ELSE LET years == _get_years_between_two_dates(a, b)
                  all_bdays == _get_all_bdays_for_years(h, years)
                  a_pos == index(all_bdays, a)
                  b_pos == index(all_bdays, b)
              IN  IF a_pos < 0 \/ b_pos < 0
                  THEN Raise("ValueError")
                  ELSE ReturnInt(b_pos - a_pos)

\* diff over the years of a and b alone, without the years between them.
diff_end_years(h, a, b) ==
    LET years == _get_years_between_two_dates_endpoints(a, b)
        all_bdays == _get_all_bdays_for_years(h, years)
        min_date == IF a <= b THEN a ELSE b
        max_date == IF a <= b THEN b ELSE a
        bdays == SelectSeq(all_bdays, LAMBDA date : min_date <= date /\ date <= max_date)
    IN  (Len(bdays) - 1) * (IF b > a THEN 1 ELSE -1)

diff(h, a, b) ==
    LET min_year == IF YearOf(a) < YearOf(b) THEN YearOf(a) ELSE YearOf(b)
        max_year == IF YearOf(a) < YearOf(b) THEN YearOf(b) ELSE YearOf(a)
        years == YearRange(min_year, max_year)
        all_bdays == _get_all_bdays_for_years(h, years)
        min_date == IF a <= b THEN a ELSE b
        max_date == IF a <= b THEN b ELSE a
        bdays == SelectSeq(all_bdays, LAMBDA date : min_date <= date /\ date <= max_date)
    IN  (Len(bdays) - 1) * (IF b > a THEN 1 ELSE -1)

(***************************************************************************)
(* Inputs.                                                                 *)
(***************************************************************************)
ProbeDates ==
    { Date(2022, 12, 30), Date(2024, 2, 9), Date(2024, 2, 10), Date(2024, 2, 12),
      Date(2024, 2, 14), Date(2024, 2, 29), Date(2024, 3, 29), Date(2026, 1, 2) }

DateInputs ==
    UNION { (Date(y, 1, 1) - NearDays)..(Date(y, 1, 1) + NearDays) : y \in FirstYear..LastYear }
        \cup ProbeDates

PairInputs == ((Date(2024, 1, 1) - PairDays)..(Date(2024, 1, 1) + PairDays)) \cup ProbeDates

DeltaInputs == (-MaxDelta)..MaxDelta

YearInputs == (FirstYear - 1)..LastYear

\* The arguments of a call; a field the call does not take is 0 or FALSE.
\* clock is what datetime.date.today() answered when the call read it.
NoArgs == [a |-> 0, b |-> 0, n |-> 0, flag |-> FALSE, year |-> 0, clock |-> 0]

(***************************************************************************)
(* The state machine.                                                      *)
(***************************************************************************)
Init ==
    /\ holidays \in Calendars
    /\ op = "idle"
    /\ args = NoArgs
    /\ ret = NoRet

Call(name, arguments, result) ==
    /\ op' = name
    /\ args' = arguments
    /\ ret' = result
    /\ UNCHANGED holidays

Call_is_bd ==
    /\ op = "idle"
    /\ \E date \in DateInputs :
           Call("is_bd", [NoArgs EXCEPT !.a = date], ReturnBool(is_bd(holidays, date)))

\* is_holiday storing its empty-list fix in self.holidays.
Call_is_holiday_storing_fix ==
    /\ op = "idle"
    /\ \E date \in DateInputs :
           /\ op' = "is_holiday"
           /\ args' = [NoArgs EXCEPT !.a = date]
           /\ ret' = ReturnBool(is_holiday(holidays, date))
           /\ holidays' = IF ~Truthy(holidays) THEN ListOf(<<>>) ELSE holidays

Call_is_holiday ==
    /\ op = "idle"
    /\ \E date \in DateInputs :
           Call("is_holiday", [NoArgs EXCEPT !.a = date],
                ReturnBool(is_holiday(holidays, date)))

Call_delta_bd ==
    /\ op = "idle"
    /\ \E date \in DateInputs, delta_days \in DeltaInputs :
           Call("delta_bd", [NoArgs EXCEPT !.a = date, !.n = delta_days],
                delta_bd(holidays, date, delta_days))

\* next_bd(date) and next_bd(), which reads the clock
Call_next_bd ==
    /\ op = "idle"
    /\ \E date \in DateInputs, given \in BOOLEAN :
           Call("next_bd",
                IF given THEN [NoArgs EXCEPT !.a = date] ELSE [NoArgs EXCEPT !.clock = date],
                IF given THEN next_bd(holidays, date, 0) ELSE next_bd(holidays, 0, date))

\* last_bd(date) and last_bd(), which reads the clock
Call_last_bd ==
    /\ op = "idle"
    /\ \E date \in DateInputs, given \in BOOLEAN :
           Call("last_bd",
                IF given THEN [NoArgs EXCEPT !.a = date] ELSE [NoArgs EXCEPT !.clock = date],
                IF given THEN last_bd(holidays, date, 0) ELSE last_bd(holidays, 0, date))

Call_range_bd ==
    /\ op = "idle"
    /\ \E start_date \in PairInputs, end_date \in PairInputs, include_end \in BOOLEAN :
           Call("range_bd",
                [NoArgs EXCEPT !.a = start_date, !.b = end_date, !.flag = include_end],
                ReturnList(range_bd(holidays, start_date, end_date, include_end)))

Call_year_bds ==
    /\ op = "idle"
    /\ \E year \in YearInputs :
           Call("year_bds", [NoArgs EXCEPT !.year = year],
                ReturnList(year_bds(holidays, year)))

Call_year_holidays ==
    /\ op = "idle"
    /\ \E year \in YearInputs :
           Call("year_holidays", [NoArgs EXCEPT !.year = year],
                ReturnList(year_holidays(holidays, year)))

Call_diff_bd ==
    /\ op = "idle"
    /\ \E a \in PairInputs, b \in PairInputs :
           Call("diff_bd", [NoArgs EXCEPT !.a = a, !.b = b], diff_bd(holidays, a, b))

Call_diff ==
    /\ op = "idle"
    /\ \E a \in PairInputs, b \in PairInputs :
           Call("diff", [NoArgs EXCEPT !.a = a, !.b = b], ReturnInt(diff(holidays, a, b)))

\* The caller has the result; the calendar waits for the next query.
Return ==
    /\ op # "idle"
    /\ op' = "idle"
    /\ args' = NoArgs
    /\ ret' = NoRet
    /\ UNCHANGED holidays

Next ==
    \/ Call_is_bd
    \/ Call_is_holiday
    \/ Call_delta_bd
    \/ Call_next_bd
    \/ Call_last_bd
    \/ Call_range_bd
    \/ Call_year_bds
    \/ Call_year_holidays
    \/ Call_diff_bd
    \/ Call_diff
    \/ Return

Spec == Init /\ [][Next]_vars

(***************************************************************************)
(* Construction of Holiday objects: a second specification.  A caller      *)
(* constructs rules one after the other and resolves the latest one for a  *)
(* year; holidays is the caller's list, holding the latest rule made.      *)
(***************************************************************************)
\* Python values of the month and day arguments: None, an int, anything else.
PyNone == [kind |-> "None", v |-> 0]

PyInt(v) == [kind |-> "int", v |-> v]

PyOther == [kind |-> "other", v |-> 0]

\* A func argument for which callable(func) is false.
NotCallable == [name |-> "not_callable", delta |-> 0]

\* Holiday.__init__ looking at func before it looks at month and day.
Holiday__init__func_first(month, day, func, clock_year) ==
    LET made(_type) == [exc |-> "none",
                        self |-> [month |-> month, day |-> day, func |-> func, type |-> _type]]
        failed(e) == [exc |-> e, self |-> [month |-> PyNone, day |-> PyNone,
                                           func |-> NoFunc, type |-> "unset"]]
    IN  IF func = NotCallable
        THEN failed("TypeError")
        ELSE IF func # NoFunc
             THEN made("dynamic")
             ELSE IF month = PyNone \/ day = PyNone
                  THEN failed("ValueError")
                  ELSE IF month.kind # "int" \/ day.kind # "int"
                       THEN failed("TypeError")
                       ELSE IF ~ValidDate(clock_year, month.v, day.v)
                            THEN failed("ValueError")
                            ELSE made("fixed")

\* Holiday.__init__(month, day, func), run in the year clock_year: the
\* exception raised ("none" when it returns) and the attributes of self.
Holiday__init__(month, day, func, clock_year) ==
    LET _month_day_passed == month # PyNone /\ day # PyNone
        _year_for_validation == clock_year
        made(_type) == [exc |-> "none",
                        self |-> [month |-> month, day |-> day, func |-> func, type |-> _type]]
        failed(e) == [exc |-> e, self |-> [month |-> PyNone, day |-> PyNone,
                                           func |-> NoFunc, type |-> "unset"]]
    IN  IF _month_day_passed
        THEN IF month.kind # "int" \/ day.kind # "int"
             THEN failed("TypeError")
             ELSE IF ~ValidDate(_year_for_validation, month.v, day.v)
                  THEN failed("ValueError")
                  ELSE made("fixed")
        ELSE IF func = NoFunc
             THEN failed("ValueError")
             ELSE IF func = NotCallable
                  THEN failed("TypeError")
                  ELSE made("dynamic")

\* Holiday.calc_for_year(year) on a constructed object, exceptions included.
Holiday_calc_for_year(self, year) ==
    IF ~ValidDate(year, 1, 1)
    THEN Raise("ValueError")
    ELSE IF self.type = "fixed"
         THEN IF ValidDate(year, self.month.v, self.day.v)
              THEN ReturnDate(Date(year, self.month.v, self.day.v))
              ELSE Raise("ValueError")
         ELSE ReturnDate(CallFunc(self.func, year))

MonthInputs == { PyNone, PyOther } \cup { PyInt(v) : v \in {0, 1, 2, 4, 12, 13} }

DayInputs == { PyNone, PyOther } \cup { PyInt(v) : v \in {0, 1, 28, 29, 30, 31, 32} }

FuncInputs == { NoFunc, NotCallable, _calc_sexta_feira_santa, JanFirstPlus(-1) }

\* The years in which a constructor runs: four in a row, one of them leap.
ClockYears == FirstYear..(FirstYear + 3)

\* The years a rule is resolved for; 0 is not a year of datetime.date.
ResolveYears == YearInputs \cup {0}

InitHoliday ==
    /\ holidays = ListOf(<<>>)
    /\ op = "idle"
    /\ args = NoArgs
    /\ ret = NoRet

Call_Holiday ==
    /\ op = "idle"
    /\ \E month \in MonthInputs, day \in DayInputs, func \in FuncInputs,
          clock_year \in ClockYears :
           LET r == Holiday__init__(month, day, func, clock_year)
           IN  /\ op' = "Holiday"
               /\ args' = [month |-> month, day |-> day, func |-> func,
                           clock_year |-> clock_year]
               /\ ret' = Raise(r.exc)
               /\ holidays' = IF r.exc = "none" THEN ListOf(<<r.self>>) ELSE holidays

Call_calc_for_year ==
    /\ op = "idle"
    /\ holidays.rules # <<>>
    /\ \E year \in ResolveYears :
           Call("calc_for_year", [NoArgs EXCEPT !.year = year],
                Holiday_calc_for_year(holidays.rules[1], year))

NextHoliday ==
    \/ Call_Holiday
    \/ Call_calc_for_year
    \/ Return

SpecHoliday == InitHoliday /\ [][NextHoliday]_vars

(***************************************************************************)
(* The package variant, src/dias_uteis/business_days.py: a third           *)
(* specification.  Its Holiday, is_bd, _get_all_bdays_for_years and module *)
(* helpers are line for line those of src/dias_uteis.py, and the default   *)
(* calendar of src/dias_uteis/__init__.py is the same thirteen rules; its  *)
(* delta_bd, next_bd and last_bd differ and are modelled here.             *)
(***************************************************************************)
\* BusinessDays.delta_bd of the package: the window runs from date to
\* date + 2 * delta_days.
business_days_delta_bd(h, date, delta_days) ==
    LET end_calendar_date == date + delta_days * 2
        years == _get_years_between_two_dates(date, end_calendar_date)
        all_bdays == _get_all_bdays_for_years(h, years)
        date_position == index(all_bdays, date)
    IN  IF ~is_bd(h, date) THEN Raise("ValueError")
        ELSE IF ~InDateRange(end_calendar_date)
             THEN Raise("OverflowError")
             ELSE IF date_position < 0 THEN Raise("ValueError")
                  ELSE IF ~SubscriptInRange(all_bdays, date_position + delta_days)
                       THEN Raise("IndexError")
                       ELSE ReturnDate(Subscript(all_bdays, date_position + delta_days))

\* BusinessDays.next_bd of the package: no search for an anchor.
business_days_next_bd(h, date, clock) ==
    LET date1 == IF date = 0 THEN clock ELSE date
    IN  business_days_delta_bd(h, date1, 1)

\* BusinessDays.last_bd of the package.
business_days_last_bd(h, date, clock) ==
    LET date1 == IF date = 0 THEN clock ELSE date
    IN  business_days_delta_bd(h, date1, -1)

InitPackage ==
    /\ holidays \in Calendars
    /\ op = "idle"
    /\ args = NoArgs
    /\ ret = NoRet

Call_business_days_delta_bd ==
    /\ op = "idle"
    /\ \E date \in DateInputs, delta_days \in DeltaInputs :
           Call("delta_bd", [NoArgs EXCEPT !.a = date, !.n = delta_days],
                business_days_delta_bd(holidays, date, delta_days))

Call_business_days_next_bd ==
    /\ op = "idle"
    /\ \E date \in DateInputs, given \in BOOLEAN :
           Call("next_bd",
                IF given THEN [NoArgs EXCEPT !.a = date] ELSE [NoArgs EXCEPT !.clock = date],
                IF given THEN business_days_next_bd(holidays, date, 0)
                ELSE business_days_next_bd(holidays, 0, date))

Call_business_days_last_bd ==
    /\ op = "idle"
    /\ \E date \in DateInputs, given \in BOOLEAN :
           Call("last_bd",
                IF given THEN [NoArgs EXCEPT !.a = date] ELSE [NoArgs EXCEPT !.clock = date],
                IF given THEN business_days_last_bd(holidays, date, 0)
                ELSE business_days_last_bd(holidays, 0, date))

NextPackage ==
    \/ Call_business_days_delta_bd
    \/ Call_business_days_next_bd
    \/ Call_business_days_last_bd
    \/ Return

SpecPackage == InitPackage /\ [][NextPackage]_vars

(***************************************************************************)
(* The loop of BusinessDays._find_bd, one iteration at a time: a fourth    *)
(* specification.  args.a is start_date, args.n is direction and args.b    *)
(* is the local variable date; op is "_find_bd:while" inside the loop and  *)
(* "_find_bd" once the method has returned.                                *)
(***************************************************************************)
\* Iterations of the loop are followed up to MaxSteps; the longest closure
\* of the model's calendars (28 December to 5 January and a weekend) ends
\* before that.
MaxSteps == 12

\* Every date of three years in a row.
FindInputs == Date(FirstYear, 1, 1)..Date(FirstYear + 2, 12, 31)

\* The iterations made so far: date is start_date + Steps * direction.
Steps == (args.b - args.a) * args.n

\* while not self.is_bd(date), testing start_date instead of date.
_find_bd_while_testing_start(h, start_date, date) == ~is_bd(h, start_date)

\* while not self.is_bd(date)
_find_bd_while(h, start_date, date) == ~is_bd(h, date)

InitFindBd ==
    /\ holidays \in Calendars
    /\ op = "idle"
    /\ args = NoArgs
    /\ ret = NoRet

\* date = start_date
Call__find_bd ==
    /\ op = "idle"
    /\ \E start_date \in FindInputs, direction \in {-1, 1} :
           /\ op' = "_find_bd:while"
           /\ args' = [NoArgs EXCEPT !.a = start_date, !.n = direction, !.b = start_date]
           /\ ret' = NoRet
           /\ UNCHANGED holidays

\* date += datetime.timedelta(days=direction)
_find_bd_step ==
    /\ op = "_find_bd:while"
    /\ _find_bd_while(holidays, args.a, args.b)
    /\ Steps < MaxSteps
    /\ args' = [args EXCEPT !.b = args.b + args.n]
    /\ UNCHANGED <<holidays, op, ret>>

\* return date
_find_bd_return ==
    /\ op = "_find_bd:while"
    /\ ~_find_bd_while(holidays, args.a, args.b)
    /\ op' = "_find_bd"
    /\ ret' = ReturnDate(args.b)
    /\ UNCHANGED <<holidays, args>>

NextFindBd ==
    \/ Call__find_bd
    \/ _find_bd_step
    \/ _find_bd_return
    \/ Return

SpecFindBd == InitFindBd /\ [][NextFindBd]_vars

(***************************************************************************)
(* What the properties are stated in: the calendar as a set of dates,      *)
(* independent of how the methods materialize and index it.                *)
(***************************************************************************)
\* The dates the configured rules resolve to for a year.
Resolved(h, year) ==
    IF h.none THEN {} ELSE { calc_for_year(h.rules[i], year) : i \in 1..Len(h.rules) }

\* Monday to Friday and not a holiday of its own year.
Business(h, date) == weekday(date) \in 0..4 /\ date \notin Resolved(h, YearOf(date))

BusinessBetween(h, lo, hi) == { e \in lo..hi : Business(h, e) }

Elements(list) == { list[i] : i \in 1..Len(list) }

StrictlyAscending(list) == \A i \in 1..(Len(list) - 1) : list[i] < list[i + 1]

\* The date a next_bd or last_bd call is about: its argument, or today.
AskedDate == IF args.a = 0 THEN args.clock ELSE args.a

(***************************************************************************)
(* Properties.                                                             *)
(***************************************************************************)
\* C1: for every calendar and every date d, is_bd(d) is true exactly when d
\* is a Monday-to-Friday date that no configured rule resolves to for d's
\* year; the business days of a year are the weekdays of 1 January .. 31
\* December minus the year's resolved holidays.
C1_IsBdIffWeekdayNotHoliday ==
    /\ op = "is_bd" => ret.exc = "none" /\ (ret.b <=> Business(holidays, args.a))
    /\ op = "year_bds" =>
           /\ ret.exc = "none"
           /\ Elements(ret.l) =
                  BusinessBetween(holidays, Date(args.year, 1, 1), Date(args.year, 12, 31))

\* Monday 1 January 2024, a holiday of the national table, is no business day.
C1_Witness ==
    /\ op = "is_bd"
    /\ holidays = _business_days_default
    /\ args.a = Date(2024, 1, 1)
    /\ weekday(args.a) = 0
    /\ ret.b = FALSE

\* C2: for every year Y, year_bds(Y) is strictly ascending, holds no
\* Saturday or Sunday, holds none of the dates of year_holidays(Y), and
\* every element of it satisfies is_bd.
C2_YearBdsAscendingNoWeekendNoHoliday ==
    op = "year_bds" =>
        /\ StrictlyAscending(ret.l)
        /\ \A i \in 1..Len(ret.l) :
               /\ weekday(ret.l[i]) \notin {5, 6}
               /\ ~In(ret.l[i], year_holidays(holidays, args.year))
               /\ is_bd(holidays, ret.l[i])

\* The 248 business days of 2023 under the national table.
C2_Witness ==
    /\ op = "year_bds"
    /\ holidays = _business_days_default
    /\ args.year = 2023
    /\ Len(ret.l) = 248

\* C3: with the national table, for every business day d and every n,
\* delta_bd(d, n) returns the business day n positions from d: the n-th
\* business day strictly after d for n > 0, the |n|-th strictly before d for
\* n < 0, d itself for n = 0; it raises nothing and never lands on the wrong
\* side of d.
C3_DeltaBdNthBusinessDay ==
    (op = "delta_bd" /\ holidays = _business_days_default /\ Business(holidays, args.a)) =>
        /\ ret.exc = "none"
        /\ Business(holidays, ret.n)
        /\ args.n = 0 => ret.n = args.a
        /\ args.n > 0 =>
               /\ ret.n > args.a
               /\ Cardinality(BusinessBetween(holidays, args.a + 1, ret.n)) = args.n
        /\ args.n < 0 =>
               /\ ret.n < args.a
               /\ Cardinality(BusinessBetween(holidays, ret.n, args.a - 1)) = -args.n

\* Three business days back from Tuesday 2 January 2024, over the new-year
\* holiday and a weekend, is Wednesday 27 December 2023.
C3_Witness ==
    /\ op = "delta_bd"
    /\ holidays = _business_days_default
    /\ args.a = Date(2024, 1, 2)
    /\ args.n = -3
    /\ ret.exc = "none"
    /\ ret.n = Date(2023, 12, 27)

\* C4: round trip: with the national table, for every business day d and
\* every n, delta_bd(delta_bd(d, n), -n) = d.
C4_DeltaBdRoundTrip ==
    (op = "delta_bd" /\ holidays = _business_days_default /\ Business(holidays, args.a)) =>
        /\ ret.exc = "none"
        /\ delta_bd(holidays, ret.n, -args.n) = ReturnDate(args.a)

\* Two business days on from Friday 29 December 2023 is 3 January 2024, and
\* two back from there is the Friday again.
C4_Witness ==
    /\ op = "delta_bd"
    /\ holidays = _business_days_default
    /\ args.a = Date(2023, 12, 29)
    /\ args.n = 2
    /\ ret.n = Date(2024, 1, 3)
    /\ delta_bd(holidays, ret.n, -2).n = Date(2023, 12, 29)

\* C5: delta_bd(d, n) raises ValueError for every date d that is not a
\* business day, for every n including 0, and returns no date.
C5_DeltaBdRejectsNonBusinessDay ==
    (op = "delta_bd" /\ ~Business(holidays, args.a)) => ret = Raise("ValueError")

\* Saturday 6 January 2024 with n = 0.
C5_Witness ==
    /\ op = "delta_bd"
    /\ args.a = Date(2024, 1, 6)
    /\ args.n = 0
    /\ ~Business(holidays, args.a)
    /\ ret.exc = "ValueError"

\* C6: for every date d, business day or not, next_bd(d) returns a business
\* day strictly later than d with no business day between d and it.
C6_NextBdIsFirstBusinessDayAfter ==
    op = "next_bd" =>
        /\ ret.exc = "none"
        /\ Business(holidays, ret.n)
        /\ ret.n > AskedDate
        /\ BusinessBetween(holidays, AskedDate + 1, ret.n - 1) = {}

\* C7: for every date d, business day or not, last_bd(d) returns a business
\* day strictly earlier than d with no business day between it and d.
C7_LastBdIsLastBusinessDayBefore ==
    op = "last_bd" =>
        /\ ret.exc = "none"
        /\ Business(holidays, ret.n)
        /\ ret.n < AskedDate
        /\ BusinessBetween(holidays, ret.n + 1, AskedDate - 1) = {}

\* C8: for all start and end, in either order and in the same or different
\* years, range_bd returns in ascending order, without duplicates, exactly
\* the business days d with start <= d < end (<= end with include_end); the
\* half-open result is a prefix of the inclusive one, the two differ by the
\* final element end exactly when end is a business day with end >= start,
\* and the result is empty when end < start.
C8_RangeBdExactlyTheBusinessDays ==
    op = "range_bd" =>
        LET half == range_bd(holidays, args.a, args.b, FALSE)
            inclusive == range_bd(holidays, args.a, args.b, TRUE)
        IN  /\ ret.exc = "none"
            /\ ret.l = (IF args.flag THEN inclusive ELSE half)
            /\ StrictlyAscending(ret.l)
            /\ Elements(ret.l) =
                   BusinessBetween(holidays, args.a, IF args.flag THEN args.b ELSE args.b - 1)
            /\ Len(half) <= Len(inclusive)
            /\ half = SubSeq(inclusive, 1, Len(half))
            /\ IF Business(holidays, args.b) /\ args.b >= args.a
               THEN inclusive = Append(half, args.b)
               ELSE inclusive = half
            /\ args.b < args.a => ret.l = <<>>

\* Thursday 28 December 2023 to Tuesday 2 January 2024, end included: the
\* weekend and the new-year holiday fall out, the end date is the last element.
C8_Witness ==
    /\ op = "range_bd"
    /\ holidays = _business_days_default
    /\ args.a = Date(2023, 12, 28)
    /\ args.b = Date(2024, 1, 2)
    /\ args.flag
    /\ ret.l = << Date(2023, 12, 28), Date(2023, 12, 29), Date(2024, 1, 2) >>

\* C9: antisymmetry of the inclusive difference: for all dates a and b,
\* business days or not, a = b included, diff(a, b) = -diff(b, a).
C9_DiffAntisymmetric ==
    op = "diff" => ret.n = -diff(holidays, args.b, args.a)

\* C10: for all dates a and b, weekends and holidays included, diff(a, b)
\* raises nothing and returns (c - 1) times +1 when b > a and times -1
\* otherwise, c being the number of business days d with
\* min(a, b) <= d <= max(a, b) over every year from the earlier to the later.
C10_DiffIsCountMinusOneSigned ==
    op = "diff" =>
        LET lo == IF args.a <= args.b THEN args.a ELSE args.b
            hi == IF args.a <= args.b THEN args.b ELSE args.a
            c == Cardinality(BusinessBetween(holidays, lo, hi))
        IN  /\ ret.exc = "none"
            /\ ret.n = (c - 1) * (IF args.b > args.a THEN 1 ELSE -1)

\* From Friday 30 December 2022 to Friday 2 January 2026 under the national
\* table: three whole years lie between the two dates.
C10_Witness ==
    /\ op = "diff"
    /\ holidays = _business_days_default
    /\ args.a = Date(2022, 12, 30)
    /\ args.b = Date(2026, 1, 2)
    /\ ret.n > 3 * 240

\* C11: for all dates a < b, business days or not, diff(a, b) >= 0 and
\* diff(b, a) <= 0: the sign of the inclusive difference follows the
\* direction of the pair.
C11_DiffSignFollowsDirection ==
    (op = "diff" /\ args.a < args.b) =>
        /\ ret.exc = "none"
        /\ ret.n >= 0
        /\ diff(holidays, args.b, args.a) <= 0

\* The 0-based position of a business day in the ascending concatenation of
\* the business days of the years from first_year on.
Position(h, date, first_year) ==
    Cardinality(BusinessBetween(h, Date(first_year, 1, 1), date)) - 1

\* C12: diff_bd(a, b) raises ValueError whenever a or b is not a business
\* day; otherwise it returns position(b) - position(a) in the ascending
\* concatenation of the business days of the years from min(a.year, b.year)
\* to max(a.year, b.year), for either order of the arguments.
C12_DiffBdIsPositionDifference ==
    op = "diff_bd" =>
        LET first_year == IF YearOf(args.a) < YearOf(args.b) THEN YearOf(args.a)
                          ELSE YearOf(args.b)
        IN  IF ~Business(holidays, args.a) \/ ~Business(holidays, args.b)
            THEN ret = Raise("ValueError")
            ELSE /\ ret.exc = "none"
                 /\ ret.n = Position(holidays, args.b, first_year)
                                - Position(holidays, args.a, first_year)

\* Tuesday 2 January 2024 back to Thursday 28 December 2023 with the national
\* table: two business days back, across the year boundary.
C12_Witness ==
    /\ op = "diff_bd"
    /\ holidays = _business_days_default
    /\ args.a = Date(2024, 1, 2)
    /\ args.b = Date(2023, 12, 28)
    /\ ret = ReturnInt(-2)

\* C13: with the default calendar, for every date d, diff(d, next_bd(d)) = 1
\* and diff(d, last_bd(d)) = -1 when d is a business day, and both are 0
\* when d is not a business day.
C13_DiffToNeighbours ==
    (holidays = _business_days_default /\ op \in {"next_bd", "last_bd"}) =>
        /\ ret.exc = "none"
        /\ diff(holidays, AskedDate, ret.n) =
               IF Business(holidays, AskedDate)
               THEN (IF op = "next_bd" THEN 1 ELSE -1)
               ELSE 0

\* New Year's Day 2024, a Monday holiday: the next business day is Tuesday
\* 2 January and the inclusive difference to it is 0.
C13_Witness ==
    /\ holidays = _business_days_default
    /\ op = "next_bd"
    /\ args.a = Date(2024, 1, 1)
    /\ ret = ReturnDate(Date(2024, 1, 2))
    /\ diff(holidays, args.a, ret.n) = 0

\* C14: is_holiday(d) is true exactly when d equals the resolution, for the
\* year of d, of at least one rule of the calendar, whether or not d falls
\* on a weekend; with None or an empty rule list it is false for every date
\* and raises nothing.
C14_IsHolidayIffSomeRuleResolvesToIt ==
    op = "is_holiday" =>
        /\ ret.exc = "none"
        /\ ret.b <=> (\E i \in 1..Len(holidays.rules) :
                          calc_for_year(holidays.rules[i], YearOf(args.a)) = args.a)
        /\ (holidays.none \/ holidays.rules = <<>>) => ~ret.b

\* Sunday 1 January 2023 with the national table: a holiday on a weekend.
C14_Witness ==
    /\ op = "is_holiday"
    /\ holidays = _business_days_default
    /\ args.a = Date(2023, 1, 1)
    /\ weekday(args.a) = 6
    /\ ret = ReturnBool(TRUE)

C16_HolidayArgumentErrors ==
    op = "Holiday" =>
        LET pair == args.month # PyNone /\ args.day # PyNone
            one_of_pair == (args.month # PyNone) # (args.day # PyNone)
            neither == ~pair /\ args.func = NoFunc
            not_callable == args.func = NotCallable
        IN  IF neither \/ one_of_pair \/ not_callable
            THEN ret.exc \in {"ValueError", "TypeError"}
            ELSE /\ ret.exc = "none"
                 /\ holidays.rules[1].type \in {"fixed", "dynamic"}

\* C16 as amended: construction fails with an argument error exactly when
\* month and day are both supplied but are not both ints forming a date of
\* the year the constructor runs in, or when month or day is missing and the
\* function is missing or not callable.  Otherwise it succeeds: the rule is
\* fixed when month and day are both supplied, whatever the function is, and
\* dynamic when one or both are missing and the function is callable.
C16_HolidayArgumentErrorsAmended ==
    op = "Holiday" =>
        LET pair == args.month # PyNone /\ args.day # PyNone
            bad_pair == \/ args.month.kind # "int"
                        \/ args.day.kind # "int"
                        \/ ~ValidDate(args.clock_year, args.month.v, args.day.v)
            bad_func == args.func \in {NoFunc, NotCallable}
        IN  IF (pair /\ bad_pair) \/ (~pair /\ bad_func)
            THEN ret.exc \in {"ValueError", "TypeError"}
            ELSE /\ ret.exc = "none"
                 /\ holidays.rules[1].type = (IF pair THEN "fixed" ELSE "dynamic")
                 /\ holidays.rules[1].month = args.month
                 /\ holidays.rules[1].day = args.day
                 /\ holidays.rules[1].func = args.func

\* Holiday(month=1, func=f) with a callable f: exactly one of month and day
\* is supplied and the rule is made, dynamic.
C16_Witness ==
    /\ op = "Holiday"
    /\ args.month = PyInt(1)
    /\ args.day = PyNone
    /\ args.func = _calc_sexta_feira_santa
    /\ ret.exc = "none"
    /\ holidays.rules[1].type = "dynamic"

\* C17: construction of a fixed Holiday(month, day) validates the pair
\* against a leap-safe reference year: it succeeds for exactly the pairs that
\* are a valid date in some year (month 2, day 29 included), and the outcome
\* does not depend on the year in which the constructor is executed.
C17_FixedHolidayLeapSafe ==
    (op = "Holiday" /\ args.month.kind = "int" /\ args.day.kind = "int") =>
        (ret.exc = "none" <=>
            \E year \in ClockYears : ValidDate(year, args.month.v, args.day.v))

\* C18: no query operation (is_bd, is_holiday, delta_bd, next_bd, last_bd,
\* range_bd, year_bds, year_holidays, diff_bd, diff) changes the calendar's
\* rule list or a rule's month, day, function or kind, whether it returns or
\* raises; so the same query asked again after any sequence of queries has
\* the same calendar to answer from.
C18_QueriesLeaveTheCalendarAlone == [][holidays' = holidays]_vars

\* A query that raised: delta_bd on Saturday 6 January 2024, national table;
\* the calendar is still the national table.
C18_Witness ==
    /\ op = "delta_bd"
    /\ args.a = Date(2024, 1, 6)
    /\ ret.exc = "ValueError"
    /\ holidays = _business_days_default
    /\ holidays.rules = FERIADOS_NACIONAIS_BR

\* index(d) + n in the window delta_bd materializes for a business day d.
WindowTarget == index(delta_bd_all_bdays(holidays, args.a, args.n), args.a) + args.n

WindowLength == Len(delta_bd_all_bdays(holidays, args.a, args.n))

\* C19: window sufficiency for any calendar: for every holiday rule set,
\* every business day d and every integer n, the concatenated business-day
\* sequence of the years spanned by [d - 4|n| days, d + 4|n| days] contains
\* the target, 0 <= index(d) + n < length of that sequence, so that the
\* out-of-range condition in delta_bd is unreachable.
C19_WindowContainsTheTarget ==
    (op = "delta_bd" /\ Business(holidays, args.a)) =>
        /\ 0 <= WindowTarget
        /\ WindowTarget < WindowLength
        /\ ret.exc # "IndexError"

\* C20: whenever the materialized window of delta_bd does not contain the
\* target, index(d) + n being below 0 or at or beyond the length of the
\* concatenated sequence, for negative as well as positive n, delta_bd fails
\* with an index-out-of-range error and returns no date.
C20_OutsideTheWindowRaisesIndexError ==
    (op = "delta_bd" /\ Business(holidays, args.a)
        /\ (WindowTarget < 0 \/ WindowTarget >= WindowLength)) =>
        ret = Raise("IndexError")

\* C21: in the package variant, whose delta_bd materializes only the years
\* between date and date + 2 * delta_days, with the default calendar the
\* target is always inside the materialized list: for every business day d
\* and every integer n, delta_bd(d, n) returns the business day exactly n
\* positions from d, so that next_bd(d) is the first business day after d
\* and last_bd(d) the last one before d, also when d is the last or first
\* business day of its year.
C21_PackageDeltaBdNthBusinessDay ==
    (holidays = _business_days_default /\ op \in {"delta_bd", "next_bd", "last_bd"}
        /\ Business(holidays, AskedDate)) =>
        LET d == AskedDate
            n == IF op = "delta_bd" THEN args.n ELSE IF op = "next_bd" THEN 1 ELSE -1
        IN  /\ ret.exc = "none"
            /\ Business(holidays, ret.n)
            /\ n = 0 => ret.n = d
            /\ n > 0 =>
                   /\ ret.n > d
                   /\ Cardinality(BusinessBetween(holidays, d + 1, ret.n)) = n
            /\ n < 0 =>
                   /\ ret.n < d
                   /\ Cardinality(BusinessBetween(holidays, ret.n, d - 1)) = -n

\* C22: the strict and the inclusive difference agree on business-day inputs:
\* for every calendar and all business days a and b, in either order, in the
\* same or in different years, a = b included, diff(a, b) = diff_bd(a, b).
C22_DiffEqualsDiffBdOnBusinessDays ==
    (op \in {"diff", "diff_bd"} /\ Business(holidays, args.a)
        /\ Business(holidays, args.b)) =>
        /\ op = "diff" => diff_bd(holidays, args.a, args.b) = ReturnInt(ret.n)
        /\ op = "diff_bd" => ret = ReturnInt(diff(holidays, args.a, args.b))

\* Friday 2 January 2026 back to Friday 30 December 2022 with the empty
\* calendar: both are business days, five years are materialized and
\* both differences are the same negative number.
C22_Witness ==
    /\ op = "diff_bd"
    /\ holidays = ListOf(<<>>)
    /\ args.a = Date(2026, 1, 2)
    /\ args.b = Date(2022, 12, 30)
    /\ ret.exc = "none"
    /\ ret.n < 0
    /\ ret.n = diff(holidays, args.a, args.b)

\* C23: termination of the anchor search: with the default national-holiday
\* calendar, for every date d away from the ends of the supported date
\* range, the loop of _find_bd(d, -1) and of _find_bd(d, +1) terminates on a
\* business day after at most 4 one-day steps (no run of consecutive
\* non-business days is longer than 4), so that next_bd and last_bd always
\* return.
C23_FindBdWithinFourSteps ==
    (holidays = _business_days_default /\ op \in {"_find_bd:while", "_find_bd"}) =>
        /\ Steps <= 4
        /\ (op = "_find_bd:while" /\ Steps = 4) => Business(holidays, args.b)
        /\ op = "_find_bd" =>
               /\ ret = ReturnDate(args.b)
               /\ Business(holidays, ret.n)
               /\ ret.n = _find_bd(holidays, args.a, args.n)
               /\ BusinessBetween(holidays, args.a, ret.n) \cup
                      BusinessBetween(holidays, ret.n, args.a) = {ret.n}
               /\ args.n = -1 => next_bd(holidays, args.a, 0).exc = "none"
               /\ args.n = 1 => last_bd(holidays, args.a, 0).exc = "none"

\* Carnival Saturday 2024 walking forward: Sunday, Monday and Tuesday are
\* not business days and the fourth step ends on Ash Wednesday.
C23_Witness ==
    /\ holidays = _business_days_default
    /\ op = "_find_bd"
    /\ args.a = Date(2024, 2, 10)
    /\ args.n = 1
    /\ Steps = 4
    /\ ret = ReturnDate(Date(2024, 2, 14))

====
